---- MODULE Spec2Model ----
(***************************************************************************)
(* Model of the playback session controller of                             *)
(* src/app/components/VideoPlayer.tsx: the React effect that creates and   *)
(* tears down the hls.js engine (or the native fallback), its event        *)
(* handlers and the bounded recovery policy.                               *)
(*                                                                         *)
(* Library behaviour taken as given (hls.js, DOM, React):                  *)
(*   - hls.destroy() detaches the media and removes every listener, so a   *)
(*     destroyed instance runs no handler; a second destroy() is a no-op;  *)
(*   - a method call on null throws a TypeError;                           *)
(*   - removeEventListener of a listener that is not registered is a no-op;*)
(*   - React runs the cleanup returned by the previous effect run before   *)
(*     the next run of the effect body, and on unmount.                    *)
(***************************************************************************)
EXTENDS Integers, Sequences, FiniteSets, TLC

\* ------------------------------------------------------------- bounds
MaxStarts == 2      \* effect runs (requests) explored
MaxEvents == 5      \* events delivered per request

\* ---------------------------------------------------------- constants
maxRetries == 3

NoError == "null"
MsgUnavailable == "Stream unavailable. Try another channel."
MsgUnsupported == "Your browser does not support HLS streaming."
MsgNativeNotify == "Stream unavailable"

\* Inputs: stream addresses ('' is what the catalog gives for a missing url),
\* the onError prop, the platform's capabilities, fault types, level lists.
Urls == {"", "chA", "chB"}
Callbacks == {"undefined", "cb1"}
Platforms == {"engine", "native", "none"}
ErrorTypes == {"networkError", "mediaError", "otherError"}
Levels == <<0, 1080>>
LevelIndexes == -1 .. Len(Levels)

VARIABLES
  platform,         \* Hls.isSupported() / video.canPlayType(...)
  url,              \* url prop of the last effect run
  onError,          \* onError prop of the last effect run
  isLoading,        \* useState(true)
  error,            \* useState<string|null>(null)
  currentQuality,   \* useState('Auto')
  retryCount,       \* retryCountRef.current
  hlsRef,           \* hlsRef.current: 0 is null, else an engine id
  created,          \* number of Hls instances constructed so far
  live,             \* engine ids constructed and not destroyed
  cleanup,          \* cleanup returned by the last effect run
  nativeListeners,  \* effect runs whose loadedmetadata/canplay/error
                    \* listeners are registered on the video
  videoSrc,         \* video.src
  raised,           \* an exception escaped a handler
  reqId,            \* number of effect runs so far
  stopped,          \* the cleanup of the last effect run has been run
  events,           \* events delivered since the last effect run
  startLoadCalls,   \* hls.startLoad() calls since the last effect run
  recoverCalls,     \* hls.recoverMediaError() calls since the last effect run
  fatalSeen,        \* fatal faults handled since the last effect run
  notified,         \* messages passed to onError since the last effect run
  last              \* the step just taken: the operation, the engine it
                    \* came from, whether a handler ran, its argument, the
                    \* status before it, (start) whether the address and
                    \* the onError prop are the previous ones

vars == <<platform, url, onError, isLoading, error, currentQuality, retryCount,
          hlsRef, created, live, cleanup, nativeListeners, videoSrc, raised,
          reqId, stopped, events, startLoadCalls, recoverCalls, fatalSeen,
          notified, last>>

statusVars == <<isLoading, error, currentQuality>>
resourceVars == <<hlsRef, created, live, cleanup, nativeListeners, videoSrc>>
propVars == <<platform, url, onError, reqId>>

\* The status the component renders (lines 261-288).
Status ==
  IF error # NoError THEN "Failed"
  ELSE IF isLoading THEN "Loading" ELSE "Ready"

Recoveries == startLoadCalls + recoverCalls

\* ------------------------------------------------------------- helpers

\* The engine handle and its liveness, threaded through a handler.
Res == [hlsRef |-> hlsRef, live |-> live, nativeListeners |-> nativeListeners,
        raised |-> raised]

\* hls.destroy() on handle h: a call on null throws.
Destroy(h, r) ==
  IF h = 0 THEN [r EXCEPT !.raised = TRUE]
  ELSE [r EXCEPT !.live = @ \ {h}]

\* Mutant: the handle is dropped without destroying the instance.
ReleaseEngineNoDestroy(r) == [r EXCEPT !.hlsRef = 0]

\* Mutant: the null guard is missing.
ReleaseEngineUnguarded(r) == [Destroy(r.hlsRef, r) EXCEPT !.hlsRef = 0]

\* if (hlsRef.current) { hlsRef.current.destroy(); hlsRef.current = null; }
ReleaseEngine(r) ==
  IF r.hlsRef # 0 THEN [Destroy(r.hlsRef, r) EXCEPT !.hlsRef = 0] ELSE r

\* The cleanup function the last effect run returned.
Cleanup(kind, r) ==
  CASE kind = "engine" -> ReleaseEngine(r)
    [] kind = "native" -> [r EXCEPT !.nativeListeners = @ \ {reqId}]
    [] OTHER -> r

\* Mutant: the budget test is off by one.
BudgetExceededOffByOne(n) == n > maxRetries + 1

\* Mutant: the budget is exhausted one fault early.
BudgetExceededEarly(n) == n >= maxRetries

\* retryCountRef.current > maxRetries
BudgetExceeded(n) == n > maxRetries

\* Mutant: the height is not tested before it is formatted.
QualityLabelNoHeightCheck(i, lv) ==
  IF i >= 0 /\ i + 1 \in DOMAIN lv
    THEN ToString(lv[i + 1]) \o "p"
    ELSE "Auto"

\* updateQuality: the label for hls.currentLevel = i over hls.levels = lv.
QualityLabel(i, lv) ==
  IF i >= 0 /\ i + 1 \in DOMAIN lv
    THEN IF lv[i + 1] # 0 THEN ToString(lv[i + 1]) \o "p" ELSE "Auto"
    ELSE "Auto"

\* onError?.(msg)
Notify(cb, msg, log) == IF cb = "undefined" THEN log ELSE Append(log, msg)

\* Mutant: the default case falls into the network case.
ClassifyDefaultTransport(type) ==
  CASE type = "mediaError" -> "Decode"
    [] OTHER -> "Transport"

\* Mutant: the two recoverable cases are swapped.
ClassifySwapped(type) ==
  CASE type = "networkError" -> "Decode"
    [] type = "mediaError" -> "Transport"
    [] OTHER -> "Other"

\* switch (data.type): the recovery classification of a fatal fault.
Classify(type) ==
  CASE type = "networkError" -> "Transport"
    [] type = "mediaError" -> "Decode"
    [] OTHER -> "Other"

\* ---------------------------------------------------------------- Init
Init ==
  /\ platform \in Platforms
  /\ url = ""
  /\ onError = "undefined"
  /\ isLoading = TRUE
  /\ error = NoError
  /\ currentQuality = "Auto"
  /\ retryCount = 0
  /\ hlsRef = 0
  /\ created = 0
  /\ live = {}
  /\ cleanup = "none"
  /\ nativeListeners = {}
  /\ videoSrc = ""
  /\ raised = FALSE
  /\ reqId = 0
  /\ stopped = FALSE
  /\ events = 0
  /\ startLoadCalls = 0
  /\ recoverCalls = 0
  /\ fatalSeen = 0
  /\ notified = <<>>
  /\ last = [op |-> "init", eng |-> 0, handled |-> FALSE, arg |-> "-",
             from |-> "Loading", same |-> FALSE, cbSame |-> FALSE]

\* ------------------------------------------------------------- actions

\* The resources after the previous cleanup and the body's own release of a
\* left-over engine (lines 153-157).
AfterTeardown == ReleaseEngine(Cleanup(cleanup, Res))

\* Mutant: the state is reset before the test of the address.
StartEmptyResets ==
  LET r == Cleanup(cleanup, Res) IN
  /\ hlsRef' = r.hlsRef
  /\ live' = r.live
  /\ nativeListeners' = r.nativeListeners
  /\ raised' = r.raised
  /\ cleanup' = "none"
  /\ isLoading' = TRUE
  /\ error' = NoError
  /\ currentQuality' = "Auto"
  /\ retryCount' = 0
  /\ UNCHANGED <<created, videoSrc>>

\* if (!video || !url) return;  (the video element is always rendered)
StartEmpty ==
  LET r == Cleanup(cleanup, Res) IN
  /\ hlsRef' = r.hlsRef
  /\ live' = r.live
  /\ nativeListeners' = r.nativeListeners
  /\ raised' = r.raised
  /\ cleanup' = "none"
  /\ UNCHANGED <<isLoading, error, currentQuality, retryCount, created,
                 videoSrc>>

\* Mutant: the retry counter is not reset.
ResetStateKeepsCount ==
  /\ isLoading' = TRUE
  /\ error' = NoError
  /\ currentQuality' = "Auto"
  /\ retryCount' = retryCount

\* Mutant: the reset omits setError(null).
ResetStateKeepsError ==
  /\ isLoading' = TRUE
  /\ UNCHANGED error
  /\ currentQuality' = "Auto"
  /\ retryCount' = 0

\* Reset state for new channel (lines 147-151).
ResetState ==
  /\ isLoading' = TRUE
  /\ error' = NoError
  /\ currentQuality' = "Auto"
  /\ retryCount' = 0

\* Hls.isSupported(): new Hls, loadSource, attachMedia, hls.on(...).
StartEngine(r) ==
  /\ ResetState
  /\ created' = created + 1
  /\ hlsRef' = created + 1
  /\ live' = r.live \cup {created + 1}
  /\ nativeListeners' = r.nativeListeners
  /\ cleanup' = "engine"
  /\ UNCHANGED videoSrc

\* video.canPlayType(...): video.src = url, addEventListener x 3.
StartNative(u, r) ==
  /\ ResetState
  /\ videoSrc' = u
  /\ nativeListeners' = r.nativeListeners \cup {reqId + 1}
  /\ cleanup' = "native"
  /\ hlsRef' = r.hlsRef
  /\ live' = r.live
  /\ UNCHANGED created

\* Mutant: the loading flag is left set.
StartUnsupportedKeepsLoading(r) ==
  /\ error' = MsgUnsupported
  /\ isLoading' = TRUE
  /\ currentQuality' = "Auto"
  /\ retryCount' = 0
  /\ cleanup' = "engine"
  /\ hlsRef' = r.hlsRef
  /\ live' = r.live
  /\ nativeListeners' = r.nativeListeners
  /\ UNCHANGED <<created, videoSrc>>

\* Neither: setError(...), setIsLoading(false); the engine cleanup is returned.
StartUnsupported(r) ==
  /\ error' = MsgUnsupported
  /\ isLoading' = FALSE
  /\ currentQuality' = "Auto"
  /\ retryCount' = 0
  /\ cleanup' = "engine"
  /\ hlsRef' = r.hlsRef
  /\ live' = r.live
  /\ nativeListeners' = r.nativeListeners
  /\ UNCHANGED <<created, videoSrc>>

\* The dependency list [url, onError, updateQuality]: the effect runs on mount
\* (also a remount after the cleanup ran) and when url or onError changed;
\* updateQuality is stable (useCallback with no dependencies).
EffectRuns(u, cb) == reqId = 0 \/ stopped \/ u # url \/ cb # onError

\* One run of the effect: React runs the previous cleanup, then the body.
Start(u, cb) ==
  /\ reqId < MaxStarts
  /\ EffectRuns(u, cb)
  /\ reqId' = reqId + 1
  /\ stopped' = FALSE
  /\ url' = u
  /\ onError' = cb
  /\ events' = 0
  /\ startLoadCalls' = 0
  /\ recoverCalls' = 0
  /\ fatalSeen' = 0
  /\ notified' = <<>>
  /\ last' = [op |-> "start", eng |-> 0, handled |-> TRUE, arg |-> u,
              from |-> Status, same |-> (u = url),
              cbSame |-> (cb = onError)]
  /\ UNCHANGED platform
  /\ IF u = ""
       THEN StartEmpty
       ELSE /\ raised' = AfterTeardown.raised
            /\ CASE platform = "engine" -> StartEngine(AfterTeardown)
                 [] platform = "native" -> StartNative(u, AfterTeardown)
                 [] OTHER -> StartUnsupported(AfterTeardown)

\* stop(): the cleanup of the last effect run, on unmount (or called again).
Stop ==
  /\ LET r == Cleanup(cleanup, Res) IN
       /\ hlsRef' = r.hlsRef
       /\ live' = r.live
       /\ nativeListeners' = r.nativeListeners
       /\ raised' = r.raised
  /\ stopped' = TRUE
  /\ last' = [op |-> "stop", eng |-> 0, handled |-> TRUE,
              arg |-> IF stopped THEN "again" ELSE "first",
              from |-> Status, same |-> FALSE, cbSame |-> FALSE]
  /\ UNCHANGED <<platform, url, onError, reqId, isLoading, error,
                 currentQuality, retryCount, created, cleanup, videoSrc,
                 events, startLoadCalls, recoverCalls, fatalSeen, notified>>

\* An event of engine e; its handlers run only while e is not destroyed.
EngineEvent(e, name, arg) ==
  /\ events < MaxEvents
  /\ events' = events + 1
  /\ last' = [op |-> name, eng |-> e, handled |-> e \in live, arg |-> arg,
              from |-> Status, same |-> FALSE, cbSame |-> FALSE]
  /\ UNCHANGED <<propVars, stopped, created, cleanup, nativeListeners,
                 videoSrc, hlsRef, raised>>

\* Mutant: a rejected play() is reported as a failure.
ManifestParsedAutoplayError(e, autoplay) ==
  /\ EngineEvent(e, "MANIFEST_PARSED", autoplay)
  /\ isLoading' = IF e \in live THEN FALSE ELSE isLoading
  /\ error' = IF e \in live /\ autoplay = "blocked"
                THEN MsgUnavailable ELSE error
  /\ UNCHANGED <<currentQuality, retryCount, live, startLoadCalls,
                 recoverCalls, fatalSeen, notified>>

\* hls.on(Hls.Events.MANIFEST_PARSED, ...); play() may be rejected.
ManifestParsed(e, autoplay) ==
  /\ EngineEvent(e, "MANIFEST_PARSED", autoplay)
  /\ isLoading' = IF e \in live THEN FALSE ELSE isLoading
  /\ UNCHANGED <<error, currentQuality, retryCount, live, startLoadCalls,
                 recoverCalls, fatalSeen, notified>>

\* hls.on(Hls.Events.LEVEL_SWITCHED, ...) with hls.currentLevel = i.
LevelSwitched(e, i) ==
  /\ EngineEvent(e, "LEVEL_SWITCHED", ToString(i))
  /\ currentQuality' = IF e \in live THEN QualityLabel(i, Levels)
                       ELSE currentQuality
  /\ UNCHANGED <<isLoading, error, retryCount, live, startLoadCalls,
                 recoverCalls, fatalSeen, notified>>

\* Mutant: the failure branch does not destroy the instance.
FailEngineNoDestroy(e) ==
  /\ error' = MsgUnavailable
  /\ isLoading' = FALSE
  /\ notified' = Notify(onError, MsgUnavailable, notified)
  /\ UNCHANGED <<live, startLoadCalls, recoverCalls>>

\* Mutant: the failure branch leaves the loading flag set.
FailEngineKeepsLoading(e) ==
  /\ error' = MsgUnavailable
  /\ UNCHANGED isLoading
  /\ notified' = Notify(onError, MsgUnavailable, notified)
  /\ live' = Destroy(e, Res).live
  /\ UNCHANGED <<startLoadCalls, recoverCalls>>

\* The failure branch of the ERROR handler: setError, setIsLoading(false),
\* onError?.(errorMsg), hls.destroy().
FailEngine(e) ==
  /\ error' = MsgUnavailable
  /\ isLoading' = FALSE
  /\ notified' = Notify(onError, MsgUnavailable, notified)
  /\ live' = Destroy(e, Res).live
  /\ UNCHANGED <<startLoadCalls, recoverCalls>>

\* Recovery based on error type: startLoad / recoverMediaError / give up.
Recover(e, type) ==
  CASE Classify(type) = "Transport" ->
         /\ startLoadCalls' = startLoadCalls + 1
         /\ UNCHANGED <<isLoading, error, live, recoverCalls, notified>>
    [] Classify(type) = "Decode" ->
         /\ recoverCalls' = recoverCalls + 1
         /\ UNCHANGED <<isLoading, error, live, startLoadCalls, notified>>
    [] OTHER -> FailEngine(e)

\* Mutant: the data.fatal test is missing, so the fault is counted.
NonFatalErrorCounted(e, type) ==
  /\ EngineEvent(e, "ERROR", type)
  /\ retryCount' = IF e \in live THEN retryCount + 1 ELSE retryCount
  /\ UNCHANGED <<statusVars, live, startLoadCalls, recoverCalls, fatalSeen,
                 notified>>

\* hls.on(Hls.Events.ERROR, ...) for a non-fatal fault.
NonFatalError(e, type) ==
  /\ EngineEvent(e, "ERROR", type)
  /\ UNCHANGED <<statusVars, retryCount, live, startLoadCalls, recoverCalls,
                 fatalSeen, notified>>

\* hls.on(Hls.Events.ERROR, ...) for a fatal fault.
FatalError(e, type) ==
  /\ EngineEvent(e, "FATAL", type)
  /\ UNCHANGED currentQuality
  /\ IF e \notin live
       THEN UNCHANGED <<isLoading, error, retryCount, live, startLoadCalls,
                        recoverCalls, fatalSeen, notified>>
       ELSE /\ retryCount' = retryCount + 1
            /\ fatalSeen' = fatalSeen + 1
            /\ IF BudgetExceeded(retryCount + 1)
                 THEN FailEngine(e)
                 ELSE Recover(e, type)

\* A native event of the video element; the listeners registered on it run.
NativeEvent(name) ==
  /\ events < MaxEvents
  /\ events' = events + 1
  /\ last' = [op |-> name, eng |-> 0, handled |-> nativeListeners # {},
              arg |-> "-", from |-> Status, same |-> FALSE, cbSame |-> FALSE]
  /\ UNCHANGED <<propVars, stopped, resourceVars, raised, currentQuality,
                 retryCount, startLoadCalls, recoverCalls, fatalSeen>>

\* handleLoaded: setIsLoading(false); video.play().catch(() => {})
HandleLoaded(ls) ==
  /\ isLoading' = IF ls # {} THEN FALSE ELSE isLoading
  /\ UNCHANGED <<error, notified>>

\* handleError: setError(...), setIsLoading(false), onError?.(...); once per
\* registered listener.
RECURSIVE NotifyEach(_, _, _)
NotifyEach(n, cb, log) ==
  IF n = 0 THEN log ELSE NotifyEach(n - 1, cb, Notify(cb, MsgNativeNotify, log))

\* Mutant: an error while still loading is ignored.
HandleErrorIgnoredWhileLoading(ls) ==
  IF ls # {} /\ ~isLoading
    THEN /\ error' = MsgUnavailable
         /\ isLoading' = FALSE
         /\ notified' = NotifyEach(Cardinality(ls), onError, notified)
    ELSE UNCHANGED <<isLoading, error, notified>>

HandleError(ls) ==
  IF ls # {}
    THEN /\ error' = MsgUnavailable
         /\ isLoading' = FALSE
         /\ notified' = NotifyEach(Cardinality(ls), onError, notified)
    ELSE UNCHANGED <<isLoading, error, notified>>

\* loadedmetadata / canplay
NativeLoaded == NativeEvent("native_loaded") /\ HandleLoaded(nativeListeners)

\* error
NativeError == NativeEvent("native_error") /\ HandleError(nativeListeners)

Next ==
  \/ \E u \in Urls, cb \in Callbacks : Start(u, cb)
  \/ Stop
  \/ \E e \in 1 .. created, a \in {"played", "blocked"} : ManifestParsed(e, a)
  \/ \E e \in 1 .. created, i \in LevelIndexes : LevelSwitched(e, i)
  \/ \E e \in 1 .. created, t \in ErrorTypes : NonFatalError(e, t)
  \/ \E e \in 1 .. created, t \in ErrorTypes : FatalError(e, t)
  \/ NativeLoaded
  \/ NativeError

Spec == Init /\ [][Next]_vars

TypeOK ==
  /\ platform \in Platforms
  /\ url \in Urls
  /\ onError \in Callbacks
  /\ isLoading \in BOOLEAN
  /\ retryCount \in Nat
  /\ hlsRef \in 0 .. created
  /\ live \subseteq 1 .. created
  /\ nativeListeners \subseteq 1 .. reqId
  /\ cleanup \in {"none", "engine", "native"}
  /\ raised \in BOOLEAN

\* -------------------------------------------------------------- claims

EngineOps == {"MANIFEST_PARSED", "LEVEL_SWITCHED", "ERROR", "FATAL"}
NativeOps == {"native_loaded", "native_error"}

\* The engine instance of the request in progress (0: none), and whether the
\* request in progress is a native one.
CurrentEngine ==
  IF ~stopped /\ cleanup = "engine" /\ platform = "engine" THEN created ELSE 0
CurrentNative == ~stopped /\ cleanup = "native"

\* C1: within one request at most maxRetries recovery actions (startLoad or
\* recoverMediaError) are invoked, and the handled fatal fault number
\* maxRetries + 1 yields Failed without a recovery action, whatever events came
\* in between.
C1_RecoveryBudget ==
  /\ [](Recoveries <= maxRetries)
  /\ [][(last'.op = "FATAL" /\ last'.handled /\ fatalSeen' = maxRetries + 1)
          => (Status' = "Failed" /\ Recoveries' = Recoveries)]_vars

C1_Witness ==
  /\ last.op = "FATAL" /\ last.handled
  /\ fatalSeen = maxRetries + 1
  /\ Recoveries = maxRetries
  /\ Status = "Failed"

\* C2 (as stated): the retry counter stays within 0 .. maxRetries.
C2_CounterWithinMax == retryCount \in 0 .. maxRetries

\* C2 (amended): the retry counter stays within 0 .. maxRetries + 1, and it
\* exceeds maxRetries only in Failed.
C2_CounterWithinMaxPlusOne ==
  /\ retryCount \in 0 .. maxRetries + 1
  /\ retryCount > maxRetries => Status = "Failed"

C2_Witness == retryCount = maxRetries + 1 /\ fatalSeen = maxRetries + 1

\* C3: at most one engine instance is live, and it is the newest one: the
\* previous instance is destroyed before the next is created.
C3_SingleLiveEngine ==
  /\ Cardinality(live) <= 1
  /\ live # {} => live = {created}

C3_Witness == reqId = 2 /\ created = 2 /\ live = {2} /\ last.op = "start"

\* C4: an event of an engine that is not the engine of the request in progress
\* (superseded or stopped), or a native event while no native request is in
\* progress, changes neither the status flags nor the retry counter nor the
\* observer's log; a native error notifies the observer at most once.
C4_StaleEventsIgnored ==
  /\ [][((last'.op \in EngineOps /\ last'.eng # CurrentEngine)
           \/ (last'.op \in NativeOps /\ ~CurrentNative))
          => UNCHANGED <<isLoading, error, currentQuality, retryCount,
                         notified>>]_vars
  /\ [][last'.op \in NativeOps => Len(notified') <= Len(notified) + 1]_vars

C4_Witness ==
  /\ last.op = "FATAL" /\ last.eng = 1
  /\ reqId = 2 /\ created = 2 /\ hlsRef = 2
  /\ Status = "Loading"

\* C5: after stop() no engine instance is live and no error was raised, in
\* whatever state it was called.
C5_StopReleasesAll == last.op = "stop" => (live = {} /\ ~raised)

C5_Witness ==
  /\ last.op = "stop" /\ last.arg = "again"
  /\ retryCount = maxRetries + 1
  /\ Status = "Failed"

\* C6: once Failed, every step other than a new start leaves the status Failed
\* with the same message and invokes no recovery action.
C6_FailedIsTerminal ==
  [][(Status = "Failed" /\ last'.op # "start")
       => (Status' = "Failed" /\ error' = error /\ ~isLoading'
           /\ Recoveries' = Recoveries)]_vars

C6_Witness ==
  /\ Status = "Failed"
  /\ last.op = "native_loaded" /\ last.handled

\* C7: a handled fatal fault of a type other than network and media yields
\* Failed at once and invokes no recovery action.
C7_OtherFailsDirectly ==
  [][(last'.op = "FATAL" /\ last'.handled /\ last'.arg = "otherError")
       => (Status' = "Failed" /\ Recoveries' = Recoveries)]_vars

C7_Witness ==
  /\ last.op = "FATAL" /\ last.handled /\ last.arg = "otherError"
  /\ fatalSeen = 1 /\ retryCount = 1
  /\ Status = "Failed"

\* C8: the engine event that enters Failed destroys the instance, sets the
\* message, clears the loading flag and passes the message to the observer (if
\* one is given) in that step; after four fatal faults of which three were
\* recovered as decode faults the request is Failed and no instance is live.
C8_FailedEntryEffects ==
  /\ [][(last'.op \in EngineOps /\ Status # "Failed" /\ Status' = "Failed")
          => /\ last'.eng \notin live'
             /\ error' = MsgUnavailable
             /\ ~isLoading'
             /\ notified' = Notify(onError, MsgUnavailable, notified)]_vars
  /\ []((recoverCalls = maxRetries /\ fatalSeen = maxRetries + 1)
          => (error = MsgUnavailable /\ ~isLoading /\ live = {}))

C8_Witness ==
  /\ recoverCalls = maxRetries /\ fatalSeen = maxRetries + 1
  /\ onError = "cb1" /\ notified = <<MsgUnavailable>>
  /\ error = MsgUnavailable /\ live = {}

\* C9: on the native path a handled error makes the status Failed in that step,
\* a handled loadedmetadata/canplay in Loading makes it Ready, and no engine is
\* created, no retry counted and no recovery action invoked.
C9_NativeErrorTerminal ==
  /\ [](platform = "native"
          => (created = 0 /\ live = {} /\ retryCount = 0 /\ Recoveries = 0))
  /\ [][(last'.op = "native_error" /\ last'.handled)
          => (error' = MsgUnavailable /\ ~isLoading')]_vars
  /\ [][(last'.op = "native_loaded" /\ last'.handled /\ Status = "Loading")
          => Status' = "Ready"]_vars

C9_Witness ==
  /\ platform = "native"
  /\ last.op = "native_error" /\ last.handled
  /\ events = 1
  /\ Status = "Failed"

C11_StartResetsCounter ==
  [][/\ last'.op = "start" => retryCount' = 0
     /\ last'.op # "start" => retryCount' >= retryCount]_vars

\* C12 (as stated): a start for the same stream address from Failed returns
\* the status to Loading with a fresh engine instance and the counter at 0.
C12_RestartAfterFailed ==
  [][(Status = "Failed" /\ url # "" /\ last'.op = "start" /\ url' = url)
       => /\ Status' = "Loading"
          /\ created' = created + 1 /\ live' = {created + 1}
          /\ hlsRef' = created + 1
          /\ retryCount' = 0]_vars

\* C12 (amended): on the engine path, an effect run for the same stream
\* address from Failed destroys the old instance, returns the status to
\* Loading with a fresh engine instance and sets the counter to 0.
C12_RestartAfterFailedEngine ==
  [][(platform = "engine" /\ Status = "Failed" /\ url # ""
      /\ last'.op = "start" /\ url' = url)
       => /\ Status' = "Loading"
          /\ created' = created + 1 /\ live' = {created + 1}
          /\ hlsRef' = created + 1
          /\ retryCount' = 0]_vars

C12_Witness ==
  /\ platform = "engine"
  /\ last.op = "start" /\ last.from = "Failed" /\ last.same /\ url # ""
  /\ Status = "Loading" /\ retryCount = 0
  /\ created = 2 /\ live = {2}

\* C13: a non-fatal fault changes neither the loading flag, the error message,
\* the quality label, the retry counter, the set of live engines, the
\* observer's log nor the recovery calls.
C13_NonFatalChangesNothing ==
  [][last'.op = "ERROR"
       => UNCHANGED <<isLoading, error, currentQuality, retryCount, live,
                      hlsRef, notified, startLoadCalls, recoverCalls>>]_vars

C13_Witness ==
  /\ last.op = "ERROR" /\ last.handled
  /\ events >= 2
  /\ Status = "Ready"

\* C14: a handled fatal network or media fault within budget leaves the
\* loading flag, the error message, the quality label and the observer's log
\* unchanged and increments the retry counter; an engine that still handles
\* events has never failed, and its manifest-ready after such faults gives Ready.
C14_RecoveryNotSurfaced ==
  /\ [][(last'.op = "FATAL" /\ last'.handled
         /\ last'.arg \in {"networkError", "mediaError"}
         /\ retryCount < maxRetries)
          => /\ UNCHANGED <<isLoading, error, currentQuality, notified>>
             /\ retryCount' = retryCount + 1]_vars
  /\ [](live # {} => error = NoError)
  /\ [][(last'.op = "MANIFEST_PARSED" /\ last'.handled)
          => Status' = "Ready"]_vars

C14_Witness ==
  /\ last.op = "MANIFEST_PARSED" /\ last.handled
  /\ retryCount = maxRetries /\ Recoveries = maxRetries
  /\ Status = "Ready" /\ notified = <<>>

\* C15: a handled fatal fault within budget invokes exactly one recovery
\* action, startLoad for a network fault and recoverMediaError for a media
\* fault, and keeps the engine instance.
C15_RecoveryByClassification ==
  [][(last'.op = "FATAL" /\ last'.handled /\ retryCount < maxRetries)
       => /\ last'.arg = "networkError"
               => (startLoadCalls' = startLoadCalls + 1
                   /\ recoverCalls' = recoverCalls)
          /\ last'.arg = "mediaError"
               => (recoverCalls' = recoverCalls + 1
                   /\ startLoadCalls' = startLoadCalls)
          /\ last'.arg \in {"networkError", "mediaError"}
               => UNCHANGED <<live, hlsRef, created>>]_vars

C15_Witness ==
  /\ last.op = "FATAL" /\ last.handled /\ last.arg = "mediaError"
  /\ recoverCalls = 1 /\ startLoadCalls = 1
  /\ live = {hlsRef}

\* C16 (as stated, for a platform with engine or native support): every start
\* leaves the loading flag set, the error message cleared and the quality
\* label "Auto".
C16_StartGivesLoading ==
  [][(last'.op = "start" /\ platform # "none")
       => (isLoading' /\ error' = NoError /\ currentQuality' = "Auto")]_vars

\* C17: a handled manifest-ready in Loading gives Ready, whether play() is
\* accepted or rejected, with the label "Auto" when it is the first event of
\* the request; it sets no error, counts no retry and notifies nobody.
C17_ManifestReady ==
  [][(last'.op = "MANIFEST_PARSED" /\ last'.handled /\ Status = "Loading")
       => /\ Status' = "Ready"
          /\ events = 0 => currentQuality' = "Auto"
          /\ UNCHANGED <<error, currentQuality, retryCount, notified, live,
                         startLoadCalls, recoverCalls>>]_vars

C17_Witness ==
  /\ last.op = "MANIFEST_PARSED" /\ last.handled /\ last.arg = "blocked"
  /\ last.from = "Loading" /\ events = 1
  /\ Status = "Ready" /\ currentQuality = "Auto"
  /\ retryCount = 0 /\ notified = <<>>

\* C18 (as stated): the observer is notified at most once per request.
C18_NotifiedAtMostOnce == Len(notified) <= 1

\* C19 (as stated): once the request is torn down (stopped, or superseded by
\* a start that binds nothing) no engine is live, no native listener is
\* registered and no stream address is assigned to the video.
C19_NoBindingAfterTeardown ==
  (stopped \/ (reqId > 0 /\ url = ""))
    => (live = {} /\ nativeListeners = {} /\ videoSrc = "")

\* C20: a handled rendition change sets the label to "1080p" for the level of
\* height 1080 and to "Auto" for no level (-1), a level of height 0 and an
\* index past the level list, and changes nothing else of the status.
C20_QualityLabel ==
  [][(last'.op = "LEVEL_SWITCHED" /\ last'.handled)
       => /\ currentQuality' = IF last'.arg = "1" THEN "1080p" ELSE "Auto"
          /\ UNCHANGED <<isLoading, error, retryCount, notified, live>>]_vars

C20_Witness ==
  /\ last.op = "LEVEL_SWITCHED" /\ last.handled /\ last.arg = "1"
  /\ currentQuality = "1080p"

\* C21: whenever an error message is set the loading flag is false; a step
\* that sets the error leaves loading false, and only a start that leaves the
\* error cleared sets the loading flag.
C21_NeverLoadingAndFailed ==
  /\ [](error # NoError => ~isLoading)
  /\ [][(error' # error /\ error' # NoError) => ~isLoading']_vars
  /\ [][(~isLoading /\ isLoading')
          => (last'.op = "start" /\ error' = NoError)]_vars

C21_Witness ==
  /\ last.op = "FATAL" /\ last.handled /\ last.from = "Loading"
  /\ error = MsgUnavailable /\ ~isLoading

\* C22: a start with the empty address leaves no engine live and no native
\* listener registered, creates no engine and keeps the loading flag, the
\* error message, the quality label and the retry counter; as the first
\* request it stays Loading whatever happens next.
C22_EmptyAddressKeepsStaleStatus ==
  /\ [][(last'.op = "start" /\ last'.arg = "")
          => /\ live' = {} /\ hlsRef' = 0 /\ nativeListeners' = {}
             /\ created' = created
             /\ UNCHANGED <<isLoading, error, currentQuality,
                            retryCount>>]_vars
  /\ []((reqId = 1 /\ url = "") => (Status = "Loading" /\ created = 0))

C22_Witness ==
  /\ last.op = "start" /\ last.arg = "" /\ last.from = "Failed"
  /\ reqId = 2 /\ created = 1 /\ live = {}
  /\ Status = "Failed" /\ retryCount = maxRetries + 1

C24_NotifiedMessageMatches ==
  [][/\ (Len(notified') > Len(notified))
          => notified'[Len(notified')] = error'
     /\ (Status # "Failed" /\ Status' = "Failed" /\ onError' # "undefined")
          => Len(notified') > 0]_vars
====
